---- MODULE Spec2Model ----
(***************************************************************************)
(* A model of folder2sprite.jsx, the Photoshop script that opens every     *)
(* supported image of a folder, stacks it as a layer of one oversized      *)
(* canvas at a grid coordinate, trims the canvas and writes the position   *)
(* of every layer as CSS or JSON.                                          *)
(*                                                                         *)
(* Strings the script inspects character by character (file names, the     *)
(* output format) are sequences of one-character strings.  The layer stack *)
(* of a document is a sequence whose element 1 is Photoshop's layers[0],   *)
(* the topmost layer.  Only the top-left corner of a layer's bounds is     *)
(* kept: it is all the script reads.                                       *)
(***************************************************************************)
EXTENDS Integers, Sequences, FiniteSets, TLC

VARIABLES LAYOUT, LIMIT, COL_SPACING, ROW_SPACING, OUTPUT_FORMAT,
          pc, folder, doc_list, i, col_index, row_index,
          new_canvas, new_doc, image_file, valid_image, try_again,
          out, placed, calls, failedAt

config == <<LAYOUT, LIMIT, COL_SPACING, ROW_SPACING, OUTPUT_FORMAT>>
locals == <<folder, doc_list, i, col_index, row_index, new_canvas, new_doc,
            image_file, valid_image, try_again>>
vars == <<LAYOUT, LIMIT, COL_SPACING, ROW_SPACING, OUTPUT_FORMAT,
          pc, folder, doc_list, i, col_index, row_index,
          new_canvas, new_doc, image_file, valid_image, try_again,
          out, placed, calls, failedAt>>

----------------------------------------------------------------------------
(* Bounds of the model *)

\* the longest folder listing
MaxFiles == 4
\* the largest LIMIT tried
MaxLimit == 2

(* The values the script ships with *)
DefaultLayout == "cols"
DefaultLimit == 1
DefaultColSpacing == 100
DefaultRowSpacing == 50
DefaultOutputFormat == <<"c", "s", "s">>

----------------------------------------------------------------------------
(* Strings *)

Upper == <<"A","B","C","D","E","F","G","H","I","J","K","L","M",
           "N","O","P","Q","R","S","T","U","V","W","X","Y","Z">>
Lower == <<"a","b","c","d","e","f","g","h","i","j","k","l","m",
           "n","o","p","q","r","s","t","u","v","w","x","y","z">>

LowerChar(c) ==
    IF \E k \in 1..Len(Upper) : Upper[k] = c
    THEN Lower[CHOOSE k \in 1..Len(Upper) : Upper[k] = c]
    ELSE c

\* String.prototype.toLowerCase
toLowerCase(s) == [k \in 1..Len(s) |-> LowerChar(s[k])]

\* whether t occurs in s at the 0-based position p
OccursAt(s, t, p) ==
    /\ p + Len(t) <= Len(s)
    /\ \A k \in 1..Len(t) : s[p + k] = t[k]

\* String.prototype.indexOf: the first 0-based position of t in s, or -1
indexOf(s, t) ==
    LET hits == {p \in 0..Len(s) : OccursAt(s, t, p)}
    IN  IF hits = {} THEN -1
        ELSE CHOOSE p \in hits : \A q \in hits : p <= q

\* String.prototype.lastIndexOf: the last 0-based position of t in s, or -1
lastIndexOf(s, t) ==
    LET hits == {p \in 0..Len(s) : OccursAt(s, t, p)}
    IN  IF hits = {} THEN -1
        ELSE CHOOSE p \in hits : \A q \in hits : q <= p

Clamp(n, len) == IF n < 0 THEN 0 ELSE IF n > len THEN len ELSE n

\* String.prototype.substring(from, to): arguments clamped to 0..length and
\* swapped when from > to
substring(s, from, to) ==
    LET a == Clamp(from, Len(s))
        b == Clamp(to, Len(s))
        lo == IF a <= b THEN a ELSE b
        hi == IF a <= b THEN b ELSE a
    IN  SubSeq(s, lo + 1, hi)

\* a % b === 0 on JavaScript numbers (a >= 0): the remainder takes the sign
\* of a, and a % 0 is NaN, which is not 0
RemIsZero(a, b) ==
    IF b = 0 THEN FALSE
    ELSE a % (IF b < 0 THEN -b ELSE b) = 0

SetMin(S) == CHOOSE m \in S : \A n \in S : m <= n

----------------------------------------------------------------------------
(* Directory entries *)

File(name) == [name |-> name, isFile |-> TRUE]
Subfolder(name) == [name |-> name, isFile |-> FALSE]
NoEntry == [name |-> <<>>, isFile |-> FALSE]

icon1_png == <<"i","c","o","n","1",".","p","n","g">>
icon2_png == <<"i","c","o","n","2",".","p","n","g">>
icon3_png == <<"i","c","o","n","3",".","p","n","g">>
readme_txt == <<"r","e","a","d","m","e",".","t","x","t">>
photo_PNG == <<"p","h","o","t","o",".","P","N","G">>
a_b_jpeg == <<"a",".","b",".","j","p","e","g">>
notes_jpgx == <<"n","o","t","e","s",".","j","p","g","x">>
scan_tif == <<"s","c","a","n",".","t","i","f">>
LICENSE == <<"L","I","C","E","N","S","E">>
pics_gif == <<"p","i","c","s",".","g","i","f">>
docs == <<"d","o","c","s">>

\* the entries the folders of the layout runs are made of
SpriteEntries ==
    {File(icon1_png), File(icon2_png), File(icon3_png), File(readme_txt),
     Subfolder(pics_gif)}

\* the entries the folders of the file filter runs are made of
FilterEntries ==
    {File(icon1_png), File(readme_txt), File(photo_PNG), File(a_b_jpeg),
     File(notes_jpgx), File(scan_tif), File(LICENSE),
     Subfolder(pics_gif), Subfolder(docs)}

\* the listings of at most MaxFiles entries, no entry twice: what
\* folder.getFiles() can return
Listings(pool) ==
    {l \in UNION {[1..n -> pool] : n \in 0..MaxFiles} :
        \A a, b \in 1..Len(l) : a # b => l[a] # l[b]}

\* what Folder.selectDialog returns: a folder, or null when it is dismissed
NullFolder == [isNull |-> TRUE, files |-> <<>>]
Folder(files) == [isNull |-> FALSE, files |-> files]

----------------------------------------------------------------------------
(* The user variables *)

css == <<"c", "s", "s">>
json == <<"j", "s", "o", "n">>
xml == <<"x", "m", "l">>

Layouts == {"cols", "rows", "grid"}
Limits == {-2} \cup (0..MaxLimit)
Spacings == {<<DefaultColSpacing, DefaultRowSpacing>>, <<0, 0>>,
             <<-DefaultColSpacing, -DefaultRowSpacing>>}
Formats == {css, json, xml}

----------------------------------------------------------------------------
(* isValidFile *)

supported_types ==
    << <<".","j","p","g">>, <<".","j","p","e","g">>, <<".","g","i","f">>,
       <<".","p","n","g">>, <<".","t","i","f">> >>

\* a mutant: the extension must end the name
isValidFileSuffix(filename) ==
    \E k \in 1..Len(supported_types) :
        /\ Len(supported_types[k]) <= Len(filename)
        /\ OccursAt(filename, supported_types[k],
                    Len(filename) - Len(supported_types[k]))

isValidFile(filename) ==
    \E k \in 1..Len(supported_types) :
        indexOf(filename, supported_types[k]) # -1

\* valid_image, as createSprite computes it for doc_list[i]
ValidImage(entry) ==
    entry.isFile /\ isValidFile(toLowerCase(entry.name))

\* valid_image for every entry of the folders tried, computed once
Verdict == [e \in SpriteEntries \cup FilterEntries |-> ValidImage(e)]

----------------------------------------------------------------------------
(* Documents and layers *)

NoDoc == [exists |-> FALSE, layers |-> <<>>]

\* the empty layer a new transparent document starts with
Placeholder ==
    [name |-> <<"L","a","y","e","r"," ","1">>, x |-> 0, y |-> 0, empty |-> TRUE]

createCanvas == [exists |-> TRUE, layers |-> <<Placeholder>>]

\* layer.translate(dx, dy)
translate(layer, dx, dy) == [layer EXCEPT !.x = @ + dx, !.y = @ + dy]

\* a mutant: the duplicate goes below every layer
PlaceAtEnd(layers, layer) == Append(layers, layer)

\* duplicate(document, ElementPlacement.PLACEATBEGINNING): the duplicate
\* becomes layers[0], the topmost layer, and the active layer
PlaceAtBeginning(layers, layer) == <<layer>> \o layers

\* a mutant: the layer is moved by the coordinates from where it landed
PositionRelative(layer, coordinates) ==
    translate(layer, coordinates.x, coordinates.y)

\* the two translations of addLayer: to (0, 0), then to the coordinates
Position(layer, coordinates) ==
    LET left_offset == layer.x * (-1)
        top_offset == layer.y * (-1)
    IN  translate(translate(layer, left_offset, top_offset),
                  coordinates.x, coordinates.y)

\* the name addLayer gives the duplicate
LayerName(doc_name) == substring(doc_name, 0, lastIndexOf(doc_name, <<".">>))

\* the layer name of every entry of the folders tried, computed once
LayerNameOf ==
    [n \in {e.name : e \in SpriteEntries \cup FilterEntries} |-> LayerName(n)]

\* addLayer once open() has succeeded; offset is where the duplicated layer's
\* pixels start in the destination document
addLayer(source_image, destination_doc, coordinates, offset) ==
    LET duplicate == [name |-> <<>>, x |-> offset[1], y |-> offset[2],
                      empty |-> FALSE]
        named == [duplicate EXCEPT !.name = LayerNameOf[source_image.name]]
    IN  [destination_doc EXCEPT
            !.layers = PlaceAtBeginning(@, Position(named, coordinates))]

\* where a source image's pixels may start
ImageOffsets == {<<0, 0>>, <<7, -3>>}

\* revealAll() and trim(TrimType.TRANSPARENT, true, true, true, true): the
\* canvas becomes the bounding box of the pixels, so every layer's bounds move
\* by the box's top-left corner
RevealAndTrim(layers) ==
    LET inked == {k \in 1..Len(layers) : ~layers[k].empty}
    IN  IF inked = {} THEN layers
        ELSE LET left == SetMin({layers[k].x : k \in inked})
                 top == SetMin({layers[k].y : k \in inked})
             IN  [k \in 1..Len(layers) |-> translate(layers[k], -left, -top)]

\* artLayers[layers.length - 1].remove()
RemoveLastLayer(layers) == SubSeq(layers, 1, Len(layers) - 1)

cleanUp(document) ==
    [document EXCEPT !.layers = RevealAndTrim(RemoveLastLayer(@))]

----------------------------------------------------------------------------
(* outputCoordinates *)

\* what $.writeln and $.write put on the console, one element per call
Bracket(text) == [kind |-> text, layer |-> <<>>, x |-> <<"", 0, "">>,
                  y |-> <<"", 0, "">>]
Comma == Bracket(",")

\* bounds[n].toString().split(' ').join(''): "50 px" becomes "50px"
JsonLine(layer) ==
    [kind |-> "json", layer |-> layer.name,
     x |-> <<"", layer.x, "px">>, y |-> <<"-", layer.y, "px">>]
CssLine(layer) ==
    [kind |-> "css", layer |-> layer.name,
     x |-> <<"-", layer.x, "px">>, y |-> <<"-", layer.y, "px">>]

\* a mutant: the loop runs from layers[0] up
LayerOrderAscending(n) == [k \in 1..n |-> k - 1]

\* the values i takes in for (i = doc.layers.length - 1; i >= limit; i--)
LayerOrder(n) == [k \in 1..n |-> n - k]

\* what one turn of the loop writes for doc.layers[idx]
WriteLayer(doc, format, idx) ==
    IF format = json
    THEN <<JsonLine(doc.layers[idx + 1])>>
            \o (IF idx > 0 THEN <<Comma>> ELSE <<>>)
    ELSE <<CssLine(doc.layers[idx + 1])>>

RECURSIVE WriteLayers(_, _, _)
WriteLayers(doc, format, order) ==
    IF order = <<>> THEN <<>>
    ELSE WriteLayer(doc, format, Head(order))
            \o WriteLayers(doc, format, Tail(order))

outputCoordinates(doc) ==
    LET format == toLowerCase(OUTPUT_FORMAT)
    IN  (IF format = json THEN <<Bracket("[")>> ELSE <<>>)
        \o WriteLayers(doc, format, LayerOrder(Len(doc.layers)))
        \o (IF format = json THEN <<Bracket("]")>> ELSE <<>>)

----------------------------------------------------------------------------
(* The grid *)

Coordinates(col, row) == [x |-> COL_SPACING * col, y |-> ROW_SPACING * row]

\* a mutant: the counter is never reset
UpdateIndicesNoWrap(layout, limit, col, row) ==
    IF layout = "rows"
    THEN [col |-> IF RemIsZero(row + 1, limit) THEN col + 1 ELSE col,
          row |-> row + 1]
    ELSE [col |-> col + 1,
          row |-> IF RemIsZero(col + 1, limit) THEN row + 1 ELSE row]

\* a mutant: the layout is not looked at
UpdateIndicesColsOnly(layout, limit, col, row) ==
    IF RemIsZero(col + 1, limit)
    THEN [col |-> 0, row |-> row + 1]
    ELSE [col |-> col + 1, row |-> row]

\* the indices after an image has been placed
UpdateIndices(layout, limit, col, row) ==
    IF layout = "rows"
    THEN IF RemIsZero(row + 1, limit)
         THEN [col |-> col + 1, row |-> 0]
         ELSE [col |-> col, row |-> row + 1]
    ELSE IF RemIsZero(col + 1, limit)
         THEN [col |-> 0, row |-> row + 1]
         ELSE [col |-> col + 1, row |-> row]

\* a mutant: a canvas is made for every image
NeedsCanvasAlways(flag) == TRUE

\* new_canvas === false
NeedsCanvas(flag) == flag = FALSE

----------------------------------------------------------------------------
(* The run *)

NoCalls == [createCanvas |-> 0, open |-> 0, cleanUp |-> 0,
            outputCoordinates |-> 0]

\* the state before createSprite(getFolder()) at the end of the script
Fresh ==
    /\ pc = "getFolder"
    /\ folder = NullFolder
    /\ doc_list = <<>>
    /\ i = 0
    /\ col_index = 0
    /\ row_index = 0
    /\ new_canvas = FALSE
    /\ new_doc = NoDoc
    /\ image_file = NoEntry
    /\ valid_image = FALSE
    /\ try_again = "unset"
    /\ out = <<>>
    /\ placed = <<>>
    /\ calls = NoCalls
    /\ failedAt = -1

\* the user variables as somebody may have edited them
Init ==
    /\ LAYOUT \in Layouts
    /\ LIMIT \in Limits
    /\ \E s \in Spacings : COL_SPACING = s[1] /\ ROW_SPACING = s[2]
    /\ OUTPUT_FORMAT \in Formats
    /\ Fresh

\* the user variables as the script ships them
InitDefaults ==
    /\ LAYOUT = DefaultLayout
    /\ LIMIT = DefaultLimit
    /\ COL_SPACING = DefaultColSpacing
    /\ ROW_SPACING = DefaultRowSpacing
    /\ OUTPUT_FORMAT = DefaultOutputFormat
    /\ Fresh

\* createSprite(getFolder()): the dialog returns `selected`, and createSprite
\* runs up to its loop, or up to its confirm() when the folder is null
CreateSprite(selected) ==
    /\ pc = "getFolder"
    /\ folder' = selected
    /\ new_canvas' = FALSE
    /\ try_again' = "unset"
    /\ IF ~selected.isNull
       THEN /\ doc_list' = selected.files
            /\ col_index' = 0
            /\ row_index' = 0
            /\ i' = 0
            /\ pc' = "loop"
       ELSE /\ pc' = "confirm"
            /\ UNCHANGED <<doc_list, col_index, row_index, i>>
    /\ UNCHANGED <<config, new_doc, image_file, valid_image, out, placed,
                   calls, failedAt>>

\* the dialog is dismissed
SelectNothing == CreateSprite(NullFolder)

\* a folder is selected
SelectFolder(pool) ==
    /\ pc = "getFolder"
    /\ \E files \in Listings(pool) : CreateSprite(Folder(files))

\* one turn of the loop over an entry that is no supported image
LoopSkip ==
    /\ pc = "loop"
    /\ i < Len(doc_list)
    /\ ~Verdict[doc_list[i + 1]]
    /\ image_file' = doc_list[i + 1]
    /\ valid_image' = FALSE
    /\ i' = i + 1
    /\ UNCHANGED <<config, pc, folder, doc_list, col_index, row_index,
                   new_canvas, new_doc, try_again, out, placed, calls,
                   failedAt>>

\* one turn of the loop over a supported image that open() opens
LoopPlace ==
    /\ pc = "loop"
    /\ i < Len(doc_list)
    /\ Verdict[doc_list[i + 1]]
    /\ image_file' = doc_list[i + 1]
    /\ valid_image' = TRUE
    /\ new_canvas' = TRUE
    /\ \E offset \in ImageOffsets :
         LET canvas == IF NeedsCanvas(new_canvas) THEN createCanvas ELSE new_doc
             coordinates == Coordinates(col_index, row_index)
         IN  new_doc' = addLayer(doc_list[i + 1], canvas, coordinates, offset)
    /\ placed' = Append(placed,
                        [file |-> doc_list[i + 1].name,
                         x |-> Coordinates(col_index, row_index).x,
                         y |-> Coordinates(col_index, row_index).y])
    /\ calls' = [calls EXCEPT
                   !.createCanvas = IF NeedsCanvas(new_canvas) THEN @ + 1 ELSE @,
                   !.open = @ + 1]
    /\ LET next == UpdateIndices(LAYOUT, LIMIT, col_index, row_index)
       IN  /\ col_index' = next.col
           /\ row_index' = next.row
    /\ i' = i + 1
    /\ UNCHANGED <<config, pc, folder, doc_list, try_again, out, failedAt>>

\* a mutant: the image that does not open is skipped
LoopOpenSkips ==
    /\ pc = "loop"
    /\ i < Len(doc_list)
    /\ Verdict[doc_list[i + 1]]
    /\ image_file' = doc_list[i + 1]
    /\ valid_image' = TRUE
    /\ new_canvas' = TRUE
    /\ new_doc' = IF NeedsCanvas(new_canvas) THEN createCanvas ELSE new_doc
    /\ calls' = [calls EXCEPT
                   !.createCanvas = IF NeedsCanvas(new_canvas) THEN @ + 1 ELSE @,
                   !.open = @ + 1]
    /\ failedAt' = i
    /\ i' = i + 1
    /\ UNCHANGED <<config, pc, folder, doc_list, col_index, row_index,
                   try_again, out, placed>>

\* one turn of the loop over a supported image that open() cannot open: the
\* error is caught nowhere and ends the script inside addLayer
LoopOpenFails ==
    /\ pc = "loop"
    /\ i < Len(doc_list)
    /\ Verdict[doc_list[i + 1]]
    /\ image_file' = doc_list[i + 1]
    /\ valid_image' = TRUE
    /\ new_canvas' = TRUE
    /\ new_doc' = IF NeedsCanvas(new_canvas) THEN createCanvas ELSE new_doc
    /\ calls' = [calls EXCEPT
                   !.createCanvas = IF NeedsCanvas(new_canvas) THEN @ + 1 ELSE @,
                   !.open = @ + 1]
    /\ failedAt' = i
    /\ pc' = "aborted"
    /\ UNCHANGED <<config, folder, doc_list, i, col_index, row_index,
                   try_again, out, placed>>

\* the loop is over
LoopExit ==
    /\ pc = "loop"
    /\ ~(i < Len(doc_list))
    /\ pc' = IF new_canvas THEN "cleanUp" ELSE "done"
    /\ UNCHANGED <<config, locals, out, placed, calls, failedAt>>

\* cleanUp(new_doc)
CleanUp ==
    /\ pc = "cleanUp"
    /\ new_doc' = cleanUp(new_doc)
    /\ calls' = [calls EXCEPT !.cleanUp = @ + 1]
    /\ pc' = "output"
    /\ UNCHANGED <<config, folder, doc_list, i, col_index, row_index,
                   new_canvas, image_file, valid_image, try_again, out,
                   placed, failedAt>>

\* outputCoordinates(new_doc)
OutputCoordinates ==
    /\ pc = "output"
    /\ out' = out \o outputCoordinates(new_doc)
    /\ calls' = [calls EXCEPT !.outputCoordinates = @ + 1]
    /\ pc' = "done"
    /\ UNCHANGED <<config, locals, placed, failedAt>>

\* confirm(...) answered OK: createSprite(getFolder()) again
ConfirmRetry ==
    /\ pc = "confirm"
    /\ try_again' = "yes"
    /\ pc' = "getFolder"
    /\ UNCHANGED <<config, folder, doc_list, i, col_index, row_index,
                   new_canvas, new_doc, image_file, valid_image, out, placed,
                   calls, failedAt>>

\* confirm(...) answered Cancel
ConfirmDecline ==
    /\ pc = "confirm"
    /\ try_again' = "no"
    /\ pc' = "done"
    /\ UNCHANGED <<config, folder, doc_list, i, col_index, row_index,
                   new_canvas, new_doc, image_file, valid_image, out, placed,
                   calls, failedAt>>

Next ==
    \/ SelectNothing
    \/ SelectFolder(SpriteEntries)
    \/ LoopSkip
    \/ LoopPlace
    \/ LoopOpenFails
    \/ LoopExit
    \/ CleanUp
    \/ OutputCoordinates
    \/ ConfirmRetry
    \/ ConfirmDecline

NextFilter ==
    \/ SelectNothing
    \/ SelectFolder(FilterEntries)
    \/ LoopSkip
    \/ LoopPlace
    \/ LoopOpenFails
    \/ LoopExit
    \/ CleanUp
    \/ OutputCoordinates
    \/ ConfirmRetry
    \/ ConfirmDecline

\* the runs over every setting of the user variables
Spec == Init /\ [][Next]_vars

\* the runs of the script as shipped, over folders of every kind of entry
SpecFilter == InitDefaults /\ [][NextFilter]_vars

----------------------------------------------------------------------------
(* What the claims speak of *)

\* the entries of a listing that createSprite accepts, in listing order
Accepted(list) == SelectSeq(list, LAMBDA e : Verdict[e])

\* how many entries of doc_list the loop has looked at
Examined == IF failedAt # -1 THEN failedAt + 1 ELSE i

\* a text t occurs somewhere in the text s
ContainsSomewhere(s, t) ==
    \E p \in 1..Len(s) : p + Len(t) - 1 <= Len(s) /\ SubSeq(s, p, p + Len(t) - 1) = t

SupportedExtensions ==
    { <<".","j","p","g">>, <<".","j","p","e","g">>, <<".","g","i","f">>,
      <<".","p","n","g">>, <<".","t","i","f">> }

\* the text before the last "." of a name
WithoutExtension(name) ==
    LET dots == {k \in 1..Len(name) : name[k] = "."}
    IN  IF dots = {} THEN <<>>
        ELSE SubSeq(name, 1, (CHOOSE k \in dots : \A j \in dots : j <= k) - 1)

\* the lines of the output that describe a layer
Records(lines) == SelectSeq(lines, LAMBDA l : l.kind \in {"css", "json"})

\* the layer of the k-th placed image while the placeholder is still there
LayerOfPlaced(k) == new_doc.layers[Len(placed) + 1 - k]

\* the indices after n images, computed by the code's own update
RECURSIVE IndicesAfter(_, _, _)
IndicesAfter(layout, limit, n) ==
    IF n = 0 THEN [col |-> 0, row |-> 0]
    ELSE LET before == IndicesAfter(layout, limit, n - 1)
         IN  UpdateIndices(layout, limit, before.col, before.row)

Defaults ==
    /\ LAYOUT = DefaultLayout
    /\ LIMIT = DefaultLimit
    /\ COL_SPACING = DefaultColSpacing
    /\ ROW_SPACING = DefaultRowSpacing
    /\ OUTPUT_FORMAT = DefaultOutputFormat

\* the user variables hold values the header comments of the script allow
ValidConfiguration ==
    /\ LAYOUT \in {"cols", "rows"}
    /\ LIMIT >= 1
    /\ COL_SPACING >= 0
    /\ ROW_SPACING >= 0
    /\ OUTPUT_FORMAT \in {css, json}

----------------------------------------------------------------------------
(* The claims *)

\* C1: with LAYOUT "cols" and LIMIT L >= 1 the k-th accepted image (k from 0,
\* counting accepted entries only) is placed at
\* (COL_SPACING * (k mod L), ROW_SPACING * (k div L)); rejected entries advance
\* neither counter; with the defaults the first three images get (0,0), (0,50),
\* (0,100).
C1_ColsGrid ==
    (LAYOUT = "cols" /\ LIMIT >= 1) =>
        /\ \A k \in 1..Len(placed) :
             /\ placed[k].file = Accepted(doc_list)[k].name
             /\ placed[k].x = COL_SPACING * ((k - 1) % LIMIT)
             /\ placed[k].y = ROW_SPACING * ((k - 1) \div LIMIT)
             /\ (new_doc.exists /\ calls.cleanUp = 0) =>
                    /\ LayerOfPlaced(k).x = placed[k].x
                    /\ LayerOfPlaced(k).y = placed[k].y
        /\ pc = "loop" =>
             /\ Len(placed) = Len(Accepted(SubSeq(doc_list, 1, i)))
             /\ col_index = Len(placed) % LIMIT
             /\ row_index = Len(placed) \div LIMIT
        /\ (Defaults /\ Len(placed) >= 3) =>
             /\ <<placed[1].x, placed[1].y>> = <<0, 0>>
             /\ <<placed[2].x, placed[2].y>> = <<0, 50>>
             /\ <<placed[3].x, placed[3].y>> = <<0, 100>>

\* C1's case: two columns, a rejected entry between accepted ones, and the third
\* image wrapped to the second row
C1_Witness ==
    /\ LAYOUT = "cols" /\ LIMIT = 2
    /\ COL_SPACING = DefaultColSpacing /\ ROW_SPACING = DefaultRowSpacing
    /\ doc_list = <<File(icon1_png), File(readme_txt), File(icon2_png),
                    File(icon3_png)>>
    /\ Len(placed) = 3
    /\ <<placed[2].x, placed[2].y>> = <<100, 0>>
    /\ <<placed[3].x, placed[3].y>> = <<0, 50>>

\* C2 as claimed: the records come in the order of the layers from the topmost
\* to the bottommost, the reverse of the order the images were placed in.
C2_TopmostFirst ==
    (ValidConfiguration /\ pc = "done" /\ calls.outputCoordinates = 1) =>
        /\ Len(Records(out)) = Len(new_doc.layers)
        /\ \A k \in 1..Len(Records(out)) :
             /\ Records(out)[k].layer = new_doc.layers[k].name
             /\ Records(out)[k].layer
                    = LayerNameOf[placed[Len(placed) + 1 - k].file]

\* C2 amended: outputCoordinates writes one record per layer of the finalized
\* canvas from the bottommost layer to the topmost, which is the order the
\* images were placed in, in both formats; in JSON the records stand between
\* "[" and "]" with a comma after every record but the last.
C2_BottommostFirst ==
    (pc = "done" /\ calls.outputCoordinates = 1) =>
        LET n == Len(new_doc.layers)
        IN  /\ Len(Records(out)) = n
            /\ \A k \in 1..n :
                 /\ Records(out)[k].layer = new_doc.layers[n + 1 - k].name
                 /\ Records(out)[k].layer = LayerNameOf[placed[k].file]
            /\ IF toLowerCase(OUTPUT_FORMAT) = json
               THEN /\ Len(out) = 2 * n + 1
                    /\ out[1].kind = "[" /\ out[Len(out)].kind = "]"
                    /\ \A k \in 1..n : out[2 * k].kind = "json"
                    /\ \A k \in 1..(n - 1) : out[2 * k + 1].kind = ","
               ELSE /\ Len(out) = n
                    /\ \A k \in 1..n : out[k].kind = "css"

\* C2's case: a JSON export of at least two layers
C2_Witness ==
    /\ pc = "done" /\ calls.outputCoordinates = 1
    /\ OUTPUT_FORMAT = json
    /\ Len(placed) >= 2
    /\ Records(out)[1].layer = LayerNameOf[placed[1].file]
    /\ Records(out)[1].layer # Records(out)[2].layer

\* C3 as claimed: a run over a folder without any supported image ends only
\* after the user was asked for another folder and declined.
C3_RepromptOnNoImages ==
    (ValidConfiguration /\ pc = "done" /\ ~folder.isNull
        /\ Accepted(doc_list) = <<>>) =>
        try_again = "no"

\* C4 as claimed: with LIMIT <= 0, a LAYOUT other than "cols"/"rows" or an
\* OUTPUT_FORMAT other than "css"/"json" no canvas is created, no image is
\* opened or placed and nothing is written.
C4_InvalidConfigRejected ==
    (LIMIT <= 0 \/ LAYOUT \notin {"cols", "rows"}
                \/ OUTPUT_FORMAT \notin {css, json}) =>
        /\ ~new_doc.exists
        /\ calls = NoCalls
        /\ placed = <<>>
        /\ out = <<>>

\* C5: a canvas exists iff an entry of the folder has been accepted,
\* createCanvas is called at most once, and a run over a folder without a
\* supported image ends with no canvas, no cleanUp and no output.
C5_LazyCanvas ==
    /\ new_doc.exists <=> Len(Accepted(SubSeq(doc_list, 1, Examined))) > 0
    /\ new_doc.exists <=> calls.createCanvas = 1
    /\ calls.createCanvas <= 1
    /\ (~folder.isNull /\ Accepted(doc_list) = <<>>) =>
          /\ ~new_doc.exists
          /\ calls.cleanUp = 0
          /\ calls.outputCoordinates = 0
          /\ out = <<>>
          /\ pc \in {"loop", "done"}

\* C5's case: a second image was accepted and the canvas of the first is used
C5_Witness ==
    /\ Len(placed) >= 2
    /\ calls.createCanvas = 1
    /\ new_doc.exists
    /\ ~Verdict[doc_list[1]]

\* C6, in every state after an open() that failed: the run is aborted, cleanUp
\* and outputCoordinates have not run, no later entry has been looked at and
\* the layers placed before have the coordinates they were given.
C6_AfterOpenFailure ==
    failedAt # -1 =>
        /\ pc = "aborted"
        /\ calls.cleanUp = 0
        /\ calls.outputCoordinates = 0
        /\ out = <<>>
        /\ i = failedAt
        /\ image_file = doc_list[failedAt + 1]
        /\ calls.open = Len(placed) + 1
        /\ Len(new_doc.layers) = Len(placed) + 1
        /\ \A k \in 1..Len(placed) :
             /\ LayerOfPlaced(k).name = LayerNameOf[placed[k].file]
             /\ LayerOfPlaced(k).x = placed[k].x
             /\ LayerOfPlaced(k).y = placed[k].y

\* C6: an image that fails to open aborts the run: what C6_AfterOpenFailure
\* says holds from then on, and the aborted run takes no further step.
C6_OpenFailureAborts ==
    /\ [](C6_AfterOpenFailure)
    /\ [][pc # "aborted"]_vars

\* C6's case: the third entry fails to open after two images were placed, and
\* an entry is left
C6_Witness ==
    /\ failedAt = 2
    /\ Len(placed) = 2
    /\ Len(doc_list) > 3
    /\ pc = "aborted"

\* C7: with non-negative spacings, after cleanUp and outputCoordinates the
\* canvas has one layer per accepted entry and no placeholder, the output has
\* one record per accepted entry, named by the file name without its
\* extension, at the coordinate the image was placed at; [icon1.png, icon2.png,
\* readme.txt] with the defaults gives two records, at (0,0) and (0,50).
C7_EndToEnd ==
    (pc = "done" /\ calls.outputCoordinates = 1
        /\ COL_SPACING >= 0 /\ ROW_SPACING >= 0) =>
        LET accepted == Accepted(doc_list)
            records == Records(out)
        IN  /\ Len(new_doc.layers) = Len(accepted)
            /\ \A k \in 1..Len(new_doc.layers) : ~new_doc.layers[k].empty
            /\ Len(records) = Len(accepted)
            /\ Len(placed) = Len(accepted)
            /\ \A k \in 1..Len(accepted) :
                 LET mine == {j \in 1..Len(records) :
                                records[j].layer
                                    = WithoutExtension(accepted[k].name)}
                 IN  /\ Cardinality(mine) = 1
                     /\ \A j \in mine :
                          /\ records[j].x[2] = placed[k].x
                          /\ records[j].y[2] = placed[k].y
                          /\ records[j].y[1] = "-"
            /\ (Defaults /\ doc_list = <<File(icon1_png), File(icon2_png),
                                         File(readme_txt)>>) =>
                 {<<r.layer, r.x[2], r.y[2]>> :
                      r \in {records[j] : j \in 1..Len(records)}}
                   = {<<(<<"i","c","o","n","1">>), 0, 0>>,
                      <<(<<"i","c","o","n","2">>), 0, 50>>}

\* C7's case: the example folder exported with the defaults
C7_Witness ==
    /\ pc = "done" /\ calls.outputCoordinates = 1
    /\ Defaults
    /\ doc_list = <<File(icon1_png), File(icon2_png), File(readme_txt)>>
    /\ Len(Records(out)) = 2

\* C8: with LAYOUT "rows" and LIMIT L >= 1 the k-th accepted image gets row
\* index k mod L and column index k div L, coordinate
\* (COL_SPACING * (k div L), ROW_SPACING * (k mod L)): the index pair is the
\* swap of the pair the same image gets under "cols".
C8_RowsTransposeCols ==
    (LAYOUT = "rows" /\ LIMIT >= 1) =>
        /\ \A k \in 1..Len(placed) :
             /\ placed[k].file = Accepted(doc_list)[k].name
             /\ placed[k].x = COL_SPACING * ((k - 1) \div LIMIT)
             /\ placed[k].y = ROW_SPACING * ((k - 1) % LIMIT)
             /\ placed[k].x
                    = COL_SPACING * IndicesAfter("cols", LIMIT, k - 1).row
             /\ placed[k].y
                    = ROW_SPACING * IndicesAfter("cols", LIMIT, k - 1).col
        /\ pc = "loop" =>
             /\ Len(placed) = Len(Accepted(SubSeq(doc_list, 1, i)))
             /\ row_index = Len(placed) % LIMIT
             /\ col_index = Len(placed) \div LIMIT
             /\ row_index = IndicesAfter("cols", LIMIT, Len(placed)).col
             /\ col_index = IndicesAfter("cols", LIMIT, Len(placed)).row

\* C8's case: two rows, and the third image wrapped to the second column
C8_Witness ==
    /\ LAYOUT = "rows" /\ LIMIT = 2
    /\ COL_SPACING = DefaultColSpacing /\ ROW_SPACING = DefaultRowSpacing
    /\ Len(placed) = 3
    /\ <<placed[2].x, placed[2].y>> = <<0, 50>>
    /\ <<placed[3].x, placed[3].y>> = <<100, 0>>

\* whether an entry is a file whose lowercased name contains a supported
\* extension, for every entry of the folders tried
SupportedByName ==
    [e \in SpriteEntries \cup FilterEntries |->
        /\ e.isFile
        /\ \E ext \in SupportedExtensions :
             ContainsSomewhere(toLowerCase(e.name), ext)]

\* the entries of FilterEntries that are to be accepted
ExpectedAccepted ==
    {File(icon1_png), File(photo_PNG), File(a_b_jpeg), File(notes_jpgx),
     File(scan_tif)}

\* C9: an entry is accepted iff it is a file and its lowercased name contains
\* one of .jpg, .jpeg, .gif, .png, .tif anywhere: photo.PNG, a.b.jpeg and
\* notes.jpgx are accepted, readme.txt, a name without extension and every
\* subfolder are rejected; the accepted entries, and only they, are placed.
C9_FileFilter ==
    /\ image_file # NoEntry =>
         /\ valid_image <=> SupportedByName[image_file]
         /\ valid_image <=> image_file \in ExpectedAccepted
    /\ pc \in {"cleanUp", "output", "done"} =>
         [k \in 1..Len(placed) |-> placed[k].file]
            = [k \in 1..Len(SelectSeq(doc_list,
                                      LAMBDA e : e \in ExpectedAccepted)) |->
                 SelectSeq(doc_list, LAMBDA e : e \in ExpectedAccepted)[k].name]

\* C9's case: notes.jpgx and photo.PNG were accepted and placed, a subfolder
\* named like an image and a file without extension were not
C9_Witness ==
    /\ pc = "done"
    /\ doc_list = <<Subfolder(pics_gif), File(notes_jpgx), File(LICENSE),
                    File(photo_PNG)>>
    /\ Len(placed) = 2
    /\ placed[1].file = notes_jpgx
    /\ placed[2].file = photo_PNG

\* C10: from createCanvas to cleanUp the canvas holds the placeholder as its
\* bottommost layer and above it one layer per image placed so far, each new
\* one on top; cleanUp removes the placeholder and no image layer.
C10_LayerStack ==
    new_doc.exists =>
        IF calls.cleanUp = 0
        THEN /\ Len(new_doc.layers) = Len(placed) + 1
             /\ new_doc.layers[Len(new_doc.layers)] = Placeholder
             /\ \A k \in 1..Len(placed) :
                  /\ ~LayerOfPlaced(k).empty
                  /\ LayerOfPlaced(k).name = LayerNameOf[placed[k].file]
        ELSE /\ Len(new_doc.layers) = Len(placed)
             /\ \A k \in 1..Len(placed) :
                  /\ ~new_doc.layers[Len(placed) + 1 - k].empty
                  /\ new_doc.layers[Len(placed) + 1 - k].name
                        = LayerNameOf[placed[k].file]

\* C10's case: cleanUp has run on a canvas of three image layers
C10_Witness ==
    /\ calls.cleanUp = 1
    /\ Len(placed) = 3
    /\ new_doc.layers[1].name = LayerNameOf[placed[3].file]

====
